---- MODULE Spec2Model ----
(***************************************************************************)
(* Outlier generators of badgers: the tabular strategies (ZScoreSampling,  *)
(* HypersphereSampling, HistogramSampling, LowDensitySampling,             *)
(* DecompositionAndOutlier) and the time-series strategies (RandomZeros,   *)
(* LocalZScore), as a state machine over generator instances.              *)
(*                                                                         *)
(* Numbers are fixed-point: every array value v stands for v / Unit (and   *)
(* for v / (Unit * den) in an array that carries a denominator den).       *)
(* The random source is a deterministic stream: a state and a step.        *)
(***************************************************************************)
EXTENDS Integers, Sequences, FiniteSets, TLC

VARIABLES tab, tabCall, ts, tsCall, ctorLog

vars == <<tab, tabCall, ts, tsCall, ctorLog>>

----------------------------------------------------------------------------
(* Bounds of the model *)

Unit == 4
RngBits == 5
MaxSeed == 1
MaxTSSeed == 7
MaxExp == 2
MaxRows == 4
MaxVal == 1
MaxBins == 2
FracRes == 2
MaxCalls == 2
ThresholdDen == 10

(* Program constants *)

ZThreshold == 3
PercentBase == 100
MaxSamplesFactor == 100
MaxHistColumns == 5
PercentileDen == 1000
DirNorm == 5

----------------------------------------------------------------------------
(* Arithmetic helpers *)

NaN == 0 - 999999

Abs(x) == IF x < 0 THEN 0 - x ELSE x

RECURSIVE SumSeq(_)
SumSeq(s) == IF s = <<>> THEN 0 ELSE Head(s) + SumSeq(Tail(s))

RECURSIVE MinSeq(_)
MinSeq(s) ==
    IF Len(s) = 1 THEN s[1]
    ELSE LET m == MinSeq(Tail(s)) IN IF s[1] <= m THEN s[1] ELSE m

RECURSIVE MaxSeq(_)
MaxSeq(s) ==
    IF Len(s) = 1 THEN s[1]
    ELSE LET m == MaxSeq(Tail(s)) IN IF s[1] >= m THEN s[1] ELSE m

RECURSIVE IsqrtFrom(_, _)
IsqrtFrom(n, r) == IF (r + 1) * (r + 1) > n THEN r ELSE IsqrtFrom(n, r + 1)

Isqrt(n) == IsqrtFrom(n, 0)

\* F applied to the value of v, which is computed once
With(v, F(_)) == CHOOSE out \in {F(x) : x \in {v}} : TRUE

Column(X, j) == [r \in 1..Len(X) |-> X[r][j]]

Squares(s) == [k \in 1..Len(s) |-> s[k] * s[k]]

\* population variance of integers s, times Len(s)^2
VarTimesN2(s) == Len(s) * SumSeq(Squares(s)) - SumSeq(s) * SumSeq(s)

----------------------------------------------------------------------------
(* numpy arrays as the strategies build them *)

Arr2(rows, ncols, den) ==
    [ndim |-> 2, shape |-> <<Len(rows), ncols>>, rows |-> rows, den |-> den]

Empty1 == [ndim |-> 1, shape |-> <<0>>, rows |-> <<>>, den |-> 1]

\* np.array(list of rows): an empty list gives the 1-D array of shape (0,)
NpArray(rows, ncols, den) == IF rows = <<>> THEN Empty1 ELSE Arr2(rows, ncols, den)

\* if outliers.shape[0] == 1: outliers = outliers.reshape(1, -1)
ReshapeSingle(a) ==
    IF a.shape[1] = 1
    THEN [a EXCEPT !.ndim = 2,
                   !.shape = <<1, IF a.ndim = 2 THEN a.shape[2] ELSE Len(a.rows[1])>>]
    ELSE a

\* yt = np.array(["outliers"] * len(outliers))
OutlierLabels(a) == [k \in 1..a.shape[1] |-> "outliers"]

----------------------------------------------------------------------------
(* The random source: numpy.random.Generator as a deterministic stream *)

RngMod == 2 ^ RngBits

\* the stream is counter-based: the state steps by one for every draw, and a
\* draw is the state put through a fixed mixing function
RngNext(s) == (s + 1) % RngMod

\* the state after k draws from s
RngSkip(s, k) == (s + k) % RngMod

Mix(t) == (t * t * 7 + (t \div 4) * 5 + t * 3 + 1) % RngMod

\* the k-th draw from state s, an integer of 0..range-1
DrawAt(s, k, range) == (Mix(RngSkip(s, k)) * range) \div RngMod

\* one draw of an integer of 0..k-1
Draw(s, k) == [v |-> DrawAt(s, 1, k), rng |-> RngNext(s)]

\* size draws of integers of 0..k-1
DrawSeq(s, k, size) ==
    IF size <= 0 THEN [v |-> <<>>, rng |-> s]
    ELSE [v |-> [i \in 1..size |-> DrawAt(s, i, k)], rng |-> RngSkip(s, size)]

\* random_generator.exponential(size=size): non-negative, in 1/Unit
Exponential(s, size) == DrawSeq(s, MaxExp + 1, size)

\* badgers.core.utils.random_sign(random_generator, size): a vector of -1 / +1
random_sign(s, size) ==
    LET d == DrawSeq(s, 2, size)
    IN [v |-> [k \in 1..size |-> 2 * d.v[k] - 1], rng |-> d.rng]

\* one unit direction of the d-sphere, scaled by DirNorm: an axis, or a 3-4-5
\* combination of two neighbouring axes
Direction(d, k) ==
    LET axis == (k % d) + 1
        next == (axis % d) + 1
        variant == k \div d
    IN [j \in 1..d |->
          CASE variant = 0 -> IF j = axis THEN DirNorm ELSE 0
            [] variant = 1 -> IF j = axis THEN 0 - DirNorm ELSE 0
            [] variant = 2 -> IF j = axis THEN 3 ELSE IF j = next THEN 4 ELSE 0
            [] OTHER -> IF j = axis THEN 0 - 4 ELSE IF j = next THEN 3 ELSE 0]

NDirections(d) == IF d = 1 THEN 2 ELSE 4 * d

\* badgers.core.utils.random_spherical_coordinate(random_generator, size, radius):
\* radius times a random unit vector; the result is in 1/(Unit*DirNorm)
random_spherical_coordinate(s, size, radius) ==
    LET k == Draw(s, NDirections(size))
        dir == Direction(size, k.v)
    IN [v |-> [j \in 1..size |-> radius * dir[j]], rng |-> k.rng]

----------------------------------------------------------------------------
(* sklearn.preprocessing.StandardScaler *)

\* _handle_zeros_in_scale: a zero scale becomes 1.0
HandleZerosInScale(s) == IF s = 0 THEN Unit ELSE s

ScalerFit(X) ==
    LET n == Len(X)
        d == Len(X[1])
    IN [n_features |-> d,
        mean_ |-> [j \in 1..d |-> SumSeq(Column(X, j)) \div n],
        scale_ |-> [j \in 1..d |->
                      HandleZerosInScale(Isqrt(VarTimesN2(Column(X, j)) \div (n * n)))]]

ScalerTransform(sc, X) ==
    [r \in 1..Len(X) |->
       [j \in 1..sc.n_features |-> ((X[r][j] - sc.mean_[j]) * Unit) \div sc.scale_[j]]]

\* check_array of inverse_transform: a 2-D array with at least one row and the
\* fitted number of columns
CheckArray(a, n_features) ==
    /\ a.ndim = 2
    /\ a.shape[1] >= 1
    /\ a.shape[2] = n_features

ScalerInverse(sc, a) ==
    Arr2([r \in 1..a.shape[1] |->
            [j \in 1..sc.n_features |->
               (a.rows[r][j] * sc.scale_[j]) \div (Unit * a.den) + sc.mean_[j]]],
         sc.n_features, 1)

----------------------------------------------------------------------------
(* Results of a tabular generate call *)

NoEstimator == [fitted |-> FALSE, data |-> <<>>]

\* what a strategy computed on its way: the histogram, its low-density bins and
\* the bins chosen (HistogramSampling); the candidates drawn and accepted
\* (LowDensitySampling)
NoAux ==
    [hist |-> <<>>, span |-> 0, low |-> <<>>, chosen |-> <<>>, edges |-> <<>>,
     candidates |-> 0, accepted |-> 0]

TabError(err, g, rng, standardized) ==
    [status |-> "error", error |-> err, points |-> Empty1, labels |-> <<>>,
     outliers |-> Empty1, n_outliers |-> 0, warned |-> FALSE,
     inverse_called |-> FALSE, standardized |-> standardized, rng |-> rng,
     density_estimator |-> g.density_estimator, aux |-> NoAux]

TabOk(points, labels, outliers, n, warned, inv, rng, est, aux) ==
    [status |-> "ok", error |-> "", points |-> points, labels |-> labels,
     outliers |-> outliers, n_outliers |-> n, warned |-> warned,
     inverse_called |-> inv, standardized |-> TRUE, rng |-> rng,
     density_estimator |-> est, aux |-> aux]

\* return scaler.inverse_transform(outliers), yt
ReturnInverse(sc, g, outliers, n, warned, rng, est, aux) ==
    IF CheckArray(outliers, sc.n_features)
    THEN TabOk(ScalerInverse(sc, outliers), OutlierLabels(outliers), outliers, n,
               warned, TRUE, rng, est, aux)
    ELSE [TabError("ValueError", g, rng, TRUE) EXCEPT
             !.inverse_called = TRUE, !.outliers = outliers, !.n_outliers = n,
             !.warned = warned, !.density_estimator = est, !.aux = aux]

\* the count rounded up instead of truncated
NOutliers_RoundedUp(n, pct) == (n * pct + PercentBase - 1) \div PercentBase

\* n_outliers = int(Xt.shape[0] * self.percentage_outliers / 100)
NOutliers(n, pct) == (n * pct) \div PercentBase

----------------------------------------------------------------------------
(* ZScoreSamplingGenerator *)

\* the offset of 3 left out
ZScoreRow_NoOffset(s, d) ==
    LET sg == random_sign(s, d)
        ex == Exponential(sg.rng, d)
    IN [v |-> [j \in 1..d |-> sg.v[j] * ex.v[j]], rng |-> ex.rng]

\* random_sign(rng, size=d) * (3. + rng.exponential(size=d))
ZScoreRow(s, d) ==
    LET sg == random_sign(s, d)
        ex == Exponential(sg.rng, d)
    IN [v |-> [j \in 1..d |-> sg.v[j] * (ZThreshold * Unit + ex.v[j])], rng |-> ex.rng]

\* [... for _ in range(n_outliers)]: every row takes 2 * d draws
ZScoreRows(s, d, k) ==
    IF k <= 0 THEN [v |-> <<>>, rng |-> s]
    ELSE [v |-> [r \in 1..k |-> ZScoreRow(RngSkip(s, (r - 1) * 2 * d), d).v],
          rng |-> RngSkip(s, k * 2 * d)]

ZScoreGenerate(g, X) ==
    With(ScalerFit(X), LAMBDA sc :
    With(ScalerTransform(sc, X), LAMBDA Xt :
      LET d == Len(Xt[1])
          n == NOutliers(Len(Xt), g.percentage_outliers)
      IN With(ZScoreRows(g.random_generator, d, n), LAMBDA drawn :
         With(ReshapeSingle(NpArray(drawn.v, d, 1)), LAMBDA outliers :
           ReturnInverse(sc, g, outliers, n, FALSE, drawn.rng,
                         g.density_estimator, NoAux)))))

----------------------------------------------------------------------------
(* HypersphereSamplingGenerator *)

\* random_spherical_coordinate(rng, size=d, radius=3. + rng.exponential())
HypersphereRow(s, d) ==
    LET ex == Exponential(s, 1)
    IN random_spherical_coordinate(ex.rng, d, ZThreshold * Unit + ex.v[1])

\* [... for _ in range(n_outliers)]: every row takes 2 draws
HypersphereRows(s, d, k) ==
    IF k <= 0 THEN [v |-> <<>>, rng |-> s]
    ELSE [v |-> [r \in 1..k |-> HypersphereRow(RngSkip(s, (r - 1) * 2), d).v],
          rng |-> RngSkip(s, k * 2)]

HypersphereGenerate(g, X) ==
    With(ScalerFit(X), LAMBDA sc :
    With(ScalerTransform(sc, X), LAMBDA Xt :
      LET d == Len(Xt[1])
          n == NOutliers(Len(Xt), g.percentage_outliers)
      IN With(HypersphereRows(g.random_generator, d, n), LAMBDA drawn :
         With(ReshapeSingle(NpArray(drawn.v, d, DirNorm)), LAMBDA outliers :
           ReturnInverse(sc, g, outliers, n, FALSE, drawn.rng,
                         g.density_estimator, NoAux)))))

----------------------------------------------------------------------------
(* HistogramSamplingGenerator *)

\* all bin-coordinate tuples of a d-dimensional histogram of b bins, in C order
AllCoords(d, b) ==
    [p \in 1..(b ^ d) |-> [i \in 1..d |-> ((p - 1) \div (b ^ (d - i))) % b]]

\* np.histogramdd's range of one column, in 1/(2*Unit): a constant column
\* gets half a unit on either side
HistRange(col) ==
    LET mn == MinSeq(col)
        mx == MaxSeq(col)
    IN IF mn = mx THEN [lo |-> 2 * mn - Unit, hi |-> 2 * mx + Unit]
       ELSE [lo |-> 2 * mn, hi |-> 2 * mx]

\* the b+1 edges of one column, in 1/(2*b*Unit)
HistEdges(col, b) ==
    LET r == HistRange(col)
    IN [c \in 1..(b + 1) |-> b * r.lo + (c - 1) * (r.hi - r.lo)]

\* the bin of value x: the last edge belongs to the last bin
BinOf(x, col, b) ==
    LET r == HistRange(col)
    IN IF 2 * x = r.hi THEN b - 1 ELSE ((2 * x - r.lo) * b) \div (r.hi - r.lo)

\* hist, edges = np.histogramdd(Xt, density=False, bins=self.bins)
HistogramDD(Xt, b) ==
    LET d == Len(Xt[1])
        coords == AllCoords(d, b)
        binOfRow == [r \in 1..Len(Xt) |->
                       [j \in 1..d |-> BinOf(Xt[r][j], Column(Xt, j), b)]]
    IN [coords |-> coords,
        hist |-> [p \in 1..Len(coords) |->
                    Cardinality({r \in 1..Len(Xt) : binOfRow[r] = coords[p]})],
        edges |-> [j \in 1..d |-> HistEdges(Column(Xt, j), b)]]

\* norm_hist = hist / (np.max(hist) - np.min(hist)) and norm_hist <= threshold:
\* with a zero span the quotient is inf (or nan) and compares False
NormLowDensity(h, span, thr) == span > 0 /\ h * ThresholdDen <= thr * span

\* list(zip(*np.where(norm_hist <= self.threshold_low_density)))
LowDensityCoords(H, thr) ==
    LET span == MaxSeq(H.hist) - MinSeq(H.hist)
        idx == SelectSeq([p \in 1..Len(H.coords) |-> p],
                         LAMBDA p : NormLowDensity(H.hist[p], span, thr))
    IN [k \in 1..Len(idx) |-> H.coords[idx[k]]]

\* [rng.uniform(low=edges[i][c], high=edges[i][c + 1]) for i, c in enumerate(h)],
\* in 1/(2*b*FracRes*Unit)
HistogramPoint(s, edges, h) ==
    LET u == DrawSeq(s, FracRes, Len(h))
    IN [v |-> [i \in 1..Len(h) |->
                 LET lo == edges[i][h[i] + 1]
                     hi == edges[i][h[i] + 2]
                 IN lo * FracRes + u.v[i] * (hi - lo)],
        rng |-> u.rng]

\* one point for each h_coords in hist_coords_random: every point takes d draws
HistogramRows(s, edges, chosen, d) ==
    IF chosen = <<>> THEN [v |-> <<>>, rng |-> s]
    ELSE [v |-> [k \in 1..Len(chosen) |->
                   HistogramPoint(RngSkip(s, (k - 1) * d), edges, chosen[k]).v],
          rng |-> RngSkip(s, Len(chosen) * d)]

\* hist_coords_random and the outliers drawn inside its bins
HistogramSample(g, sc, d, n, H, low) ==
    \* rng.choice(low, n_outliers, replace=True)
    With(DrawSeq(g.random_generator, Len(low), n), LAMBDA picks :
    With([k \in 1..Len(picks.v) |-> low[picks.v[k] + 1]], LAMBDA chosen :
    With(HistogramRows(picks.rng, H.edges, chosen, d), LAMBDA drawn :
    With(ReshapeSingle(NpArray(drawn.v, d, 2 * g.bins * FracRes)), LAMBDA outliers :
      ReturnInverse(sc, g, outliers, n, FALSE, drawn.rng, g.density_estimator,
                    [NoAux EXCEPT !.hist = H.hist,
                                  !.span = MaxSeq(H.hist) - MinSeq(H.hist),
                                  !.low = low, !.chosen = chosen,
                                  !.edges = H.edges])))))

\* the column check left out
HistogramSupported_Any(X) == TRUE

\* if X.shape[1] > 5: raise NotImplementedError
HistogramSupported(X) == Len(X[1]) <= MaxHistColumns

HistogramGenerate(g, X) ==
    IF ~HistogramSupported(X)
    THEN TabError("NotImplementedError", g, g.random_generator, FALSE)
    ELSE
    With(ScalerFit(X), LAMBDA sc :
    With(ScalerTransform(sc, X), LAMBDA Xt :
      LET d == Len(Xt[1])
          n == NOutliers(Len(Xt), g.percentage_outliers)
      IN With(HistogramDD(Xt, g.bins), LAMBDA H :
         With(LowDensityCoords(H, g.threshold_low_density), LAMBDA low :
           IF low = <<>> /\ n > 0
           \* rng.choice of an empty list
           THEN [TabError("ValueError", g, g.random_generator, TRUE) EXCEPT
                    !.n_outliers = n,
                    !.aux = [NoAux EXCEPT !.hist = H.hist,
                                          !.span = MaxSeq(H.hist) - MinSeq(H.hist),
                                          !.low = low, !.edges = H.edges]]
           ELSE HistogramSample(g, sc, d, n, H, low)))))

----------------------------------------------------------------------------
(* LowDensitySamplingGenerator *)

\* an estimator fitted before is kept as it is
DensityFit_KeepFitted(est, Xt) ==
    IF est.fitted THEN est ELSE [fitted |-> TRUE, data |-> Xt]

\* self.density_estimator = self.density_estimator.fit(Xt): KernelDensity.fit
\* keeps the data it was given and nothing of an earlier fit
DensityFit(est, Xt) == [fitted |-> TRUE, data |-> Xt]

L1Distance(x, y) == SumSeq([j \in 1..Len(x) |-> Abs(x[j] - y[j])])

\* score_samples of one point: a triangular kernel of bandwidth one unit,
\* summed over the fitted data (the log is monotone and dropped)
ScoreSample(est, x) ==
    SumSeq([r \in 1..Len(est.data) |->
              LET dist == L1Distance(x, est.data[r])
              IN IF dist < Unit THEN Unit - dist ELSE 0])

RemoveAt(s, k) == SubSeq(s, 1, k - 1) \o SubSeq(s, k + 1, Len(s))

\* np.percentile(scores, 0.1), times PercentileDen: linear interpolation between
\* the two smallest scores at 0.001 * (n - 1)
LowDensityThreshold(scores) ==
    LET s0 == MinSeq(scores)
        k0 == CHOOSE k \in 1..Len(scores) : scores[k] = s0
        s1 == IF Len(scores) = 1 THEN s0 ELSE MinSeq(RemoveAt(scores, k0))
    IN PercentileDen * s0 + (s1 - s0) * (Len(scores) - 1)

\* one row of rng.uniform(low=np.min(Xt, axis=0), high=np.max(Xt, axis=0), ...)
UniformRow(s, lo, hi) ==
    LET u == DrawSeq(s, FracRes, Len(lo))
    IN [v |-> [j \in 1..Len(lo) |-> lo[j] + (u.v[j] * (hi[j] - lo[j])) \div FracRes],
        rng |-> u.rng]

\* the candidates, of the max_samples drawn, whose score is <= the threshold:
\* every candidate takes d draws
LowDensityCandidates(s, m, lo, hi, est, thr) ==
    IF m <= 0 THEN [v |-> <<>>, rng |-> s]
    ELSE LET d == Len(lo)
             cand == [i \in 1..m |-> UniformRow(RngSkip(s, (i - 1) * d), lo, hi).v]
         IN [v |-> SelectSeq(cand,
                             LAMBDA x : PercentileDen * ScoreSample(est, x) <= thr),
             rng |-> RngSkip(s, m * d)]

\* the accepted candidates all kept
Truncate_KeepAll(a, n) == a

\* outliers[:n_outliers]
Truncate(a, n) ==
    IF a.ndim = 1 THEN a
    ELSE [a EXCEPT !.rows = SubSeq(a.rows, 1, n),
                   !.shape = <<IF n < a.shape[1] THEN n ELSE a.shape[1], a.shape[2]>>]

\* **params of a generate call: max_samples, when given
NoParams == [given |-> FALSE, max_samples |-> 0]

WithMaxSamples(m) == [given |-> TRUE, max_samples |-> m]

\* params['max_samples'] if it is not None, else n_outliers * 100
MaxSamples(n, params) ==
    IF params.given THEN params.max_samples ELSE n * MaxSamplesFactor

\* the warning, the truncation and the return of LowDensitySampling
LowDensityReturn(g, sc, est, n, m, drawn, d) ==
    With(NpArray(drawn.v, d, 1), LAMBDA accepted :
      LET warned == accepted.shape[1] < n
          aux == [NoAux EXCEPT !.candidates = m, !.accepted = accepted.shape[1]]
      IN With(ReshapeSingle(IF warned THEN accepted ELSE Truncate(accepted, n)),
              LAMBDA outliers :
                IF outliers.shape[1] = 0
                THEN TabOk(outliers, OutlierLabels(outliers), outliers, n, warned,
                           FALSE, drawn.rng, est, aux)
                ELSE ReturnInverse(sc, g, outliers, n, warned, drawn.rng, est, aux)))

LowDensityGenerate(g, X, params) ==
    With(ScalerFit(X), LAMBDA sc :
    With(ScalerTransform(sc, X), LAMBDA Xt :
    With(DensityFit(g.density_estimator, Xt), LAMBDA est :
    With(LowDensityThreshold([r \in 1..Len(Xt) |-> ScoreSample(est, Xt[r])]),
         LAMBDA thr :
      LET d == Len(Xt[1])
          n == NOutliers(Len(Xt), g.percentage_outliers)
          m == MaxSamples(n, params)
      IN IF m < 0
         THEN [TabError("ValueError", g, g.random_generator, TRUE) EXCEPT
                  !.density_estimator = est, !.n_outliers = n]
         ELSE
         With([j \in 1..d |-> MinSeq(Column(Xt, j))], LAMBDA lo :
         With([j \in 1..d |-> MaxSeq(Column(Xt, j))], LAMBDA hi :
         With(LowDensityCandidates(g.random_generator, m, lo, hi, est, thr),
              LAMBDA drawn : LowDensityReturn(g, sc, est, n, m, drawn, d))))))))

----------------------------------------------------------------------------
(* DecompositionAndOutlierGenerator *)

GenerateBase(kind, g, X, params) ==
    CASE kind = "ZScoreSampling" -> ZScoreGenerate(g, X)
      [] kind = "HypersphereSampling" -> HypersphereGenerate(g, X)
      [] kind = "HistogramSampling" -> HistogramGenerate(g, X)
      [] kind = "LowDensitySampling" -> LowDensityGenerate(g, X, params)

\* the decomposition transformer (PCA by default): keeps n_components latent
\* columns, which needs that many rows and columns
DecompositionFits(Xs, k) == k <= Len(Xs) /\ k <= Len(Xs[1])

DecompositionTransform(Xs, k) == [r \in 1..Len(Xs) |-> SubSeq(Xs[r], 1, k)]

DecompositionInverse(a, k, d) ==
    Arr2([r \in 1..a.shape[1] |->
            [j \in 1..d |-> IF j <= k THEN a.rows[r][j] ELSE 0]], d, a.den)

\* return pipeline.inverse_transform(Xt), yt: the delegate's result res, brought
\* back from the k latent columns to the d columns of X
DecompositionReturn(sc, g, k, d, res) ==
    IF res.status = "error"
    THEN [res EXCEPT !.standardized = TRUE]
    ELSE IF CheckArray(res.points, k)
    THEN [res EXCEPT
             !.points = ScalerInverse(sc, DecompositionInverse(res.points, k, d)),
             !.inverse_called = TRUE]
    ELSE [TabError("ValueError", g, res.rng, TRUE) EXCEPT
             !.density_estimator = res.density_estimator,
             !.outliers = res.outliers, !.n_outliers = res.n_outliers,
             !.warned = res.warned, !.inverse_called = TRUE]

DecompositionGenerate(g, X) ==
    With(ScalerFit(X), LAMBDA sc :
    With(ScalerTransform(sc, X), LAMBDA Xs :
      LET k == g.n_components
      IN IF ~DecompositionFits(Xs, k)
         THEN TabError("ValueError", g, g.random_generator, TRUE)
         \* Xt = pipeline.fit_transform(X)
         ELSE With(DecompositionTransform(Xs, k), LAMBDA Xt :
              \* Xt, yt = self.outlier_generator.generate(Xt, y)
              With(GenerateBase(g.outlier_generator, g, Xt, NoParams), LAMBDA res :
                DecompositionReturn(sc, g, k, Len(X[1]), res)))))

Generate(g, X, params) ==
    IF g.kind = "DecompositionAndOutlier" THEN DecompositionGenerate(g, X)
    ELSE GenerateBase(g.kind, g, X, params)

----------------------------------------------------------------------------
(* Tabular generator instances *)

TabKinds == {"ZScoreSampling", "HypersphereSampling", "HistogramSampling",
             "LowDensitySampling"}

NoGen ==
    [kind |-> "none", percentage_outliers |-> 0, threshold_low_density |-> 0,
     bins |-> 0, outlier_generator |-> "none", n_components |-> 0,
     random_generator |-> 0, density_estimator |-> NoEstimator, calls |-> 0]

NoTabCall == [called |-> FALSE, X |-> <<>>, params |-> NoParams, before |-> NoGen,
              res |-> TabError("", NoGen, 0, FALSE)]

\* the strategy that draws the points of generator g
Strategy(g) ==
    IF g.kind = "DecompositionAndOutlier" THEN g.outlier_generator ELSE g.kind

\* OutliersGenerator.__init__: assert 0 <= percentage_outliers <= 100
BaseInitOk(pct) == 0 <= pct /\ pct <= PercentBase

\* HistogramSamplingGenerator.__init__: assert 0 < threshold_low_density < 1
HistogramInitOk(thr) == 0 < thr /\ thr < ThresholdDen

\* the constructor of a base strategy: the generator, when no assertion fails
TabInitOk(kind, pct, thr) ==
    /\ kind = "HistogramSampling" => HistogramInitOk(thr)
    /\ BaseInitOk(pct)

TabInit(kind, rng, pct, thr, bins) ==
    [NoGen EXCEPT !.kind = kind, !.percentage_outliers = pct,
                  !.threshold_low_density = IF kind = "HistogramSampling" THEN thr ELSE 0,
                  !.bins = IF kind = "HistogramSampling" THEN bins ELSE 0,
                  !.random_generator = rng]

\* DecompositionAndOutlierGenerator.__init__: the transformer must have
\* inverse_transform; percentage and random source are the delegate's
DecompositionInitOk(has_inverse, delegate) ==
    has_inverse /\ BaseInitOk(delegate.percentage_outliers)

DecompositionInit(delegate, k) ==
    [delegate EXCEPT !.kind = "DecompositionAndOutlier",
                     !.outlier_generator = delegate.kind, !.n_components = k]

Percentages == {0 - 1, 0, PercentBase \div 2, PercentBase, PercentBase + 1}

Thresholds == {0, 1, ThresholdDen \div 2, ThresholdDen}

Seeds == 0..MaxSeed

\* the constructor arguments tried: threshold and bins vary for HistogramSampling
TabArgs ==
    [kind : TabKinds \ {"HistogramSampling"}, pct : Percentages, thr : {1},
     bins : {1}, rng : Seeds]
    \cup [kind : {"HistogramSampling"}, pct : Percentages, thr : Thresholds,
          bins : 1..MaxBins, rng : Seeds]

CtorRecord(kind, a, ok) ==
    [family |-> "tabular", kind |-> kind, percentage_outliers |-> a.pct,
     threshold_low_density |-> a.thr, n_outliers |-> 0, ok |-> ok]

NoCtor ==
    [family |-> "none", kind |-> "none", percentage_outliers |-> 0,
     threshold_low_density |-> 0, n_outliers |-> 0, ok |-> FALSE]

\* g = Kind(random_generator, percentage_outliers, ...)
ConstructTabular(i, args) ==
    /\ tab[i].kind = "none"
    /\ ts[i].kind = "none"
    /\ \E a \in args :
         IF TabInitOk(a.kind, a.pct, a.thr)
         THEN /\ tab' = [tab EXCEPT ![i] = TabInit(a.kind, a.rng, a.pct, a.thr, a.bins)]
              /\ ctorLog' = CtorRecord(a.kind, a, TRUE)
         ELSE /\ tab' = tab
              /\ ctorLog' = CtorRecord(a.kind, a, FALSE)
    /\ UNCHANGED <<tabCall, ts, tsCall>>

\* g = DecompositionAndOutlierGenerator(transformer, Kind(...))
ConstructDecomposition(i, args) ==
    /\ tab[i].kind = "none"
    /\ ts[i].kind = "none"
    /\ \E a \in args, k \in 1..2, has_inverse \in BOOLEAN :
         /\ TabInitOk(a.kind, a.pct, a.thr)
         /\ LET delegate == TabInit(a.kind, a.rng, a.pct, a.thr, a.bins)
            IN IF DecompositionInitOk(has_inverse, delegate)
               THEN /\ tab' = [tab EXCEPT ![i] = DecompositionInit(delegate, k)]
                    /\ ctorLog' = CtorRecord("DecompositionAndOutlier", a, TRUE)
               ELSE /\ tab' = tab
                    /\ ctorLog' = CtorRecord("DecompositionAndOutlier", a, FALSE)
    /\ UNCHANGED <<tabCall, ts, tsCall>>

\* a second generator built with the arguments of generator i and a random
\* source of its own, in the state the source of generator i is in now
TwinTabular(j, i) ==
    /\ tab[j].kind = "none"
    /\ ts[j].kind = "none"
    /\ tab[i].kind # "none"
    /\ LET g == tab[i]
           base == TabInit(Strategy(g), g.random_generator, g.percentage_outliers,
                           g.threshold_low_density, g.bins)
       IN /\ tab' = [tab EXCEPT ![j] =
                      IF g.kind = "DecompositionAndOutlier"
                      THEN DecompositionInit(base, g.n_components) ELSE base]
          /\ ctorLog' = CtorRecord(g.kind,
                                   [pct |-> g.percentage_outliers,
                                    thr |-> g.threshold_low_density], TRUE)
    /\ UNCHANGED <<tabCall, ts, tsCall>>

\* the feature matrices tried: every column is a shift of one sorted column
SortedColumns(n) ==
    {c \in [1..n -> 0..MaxVal] : \A r \in 1..(n - 1) : c[r] <= c[r + 1]}

MakeX(col, d) ==
    [r \in 1..Len(col) |->
       [j \in 1..d |-> Unit * ((col[r] + (j - 1) * (r - 1)) % (MaxVal + 1))]]

TabColumns == {1, 2, MaxHistColumns + 1}

TabInputs ==
    UNION {{MakeX(col, d) : col \in SortedColumns(n)} :
             n \in 1..MaxRows, d \in TabColumns}

TabParams == {NoParams, WithMaxSamples(0), WithMaxSamples(2)}

\* max_samples is given to LowDensitySampling only
ParamsFor(g, params) == IF g.kind = "LowDensitySampling" THEN params ELSE {NoParams}

\* Xt, yt = g.generate(X, y, **params)
GenerateTabular(i, inputs, paramsets) ==
    /\ tab[i].kind # "none"
    /\ tab[i].calls < MaxCalls
    /\ \E X \in inputs, params \in ParamsFor(tab[i], paramsets) :
         \E res \in {Generate(tab[i], X, params)} :
            /\ tab' = [tab EXCEPT ![i].random_generator = res.rng,
                                  ![i].density_estimator = res.density_estimator,
                                  ![i].calls = @ + 1]
            /\ tabCall' = [tabCall EXCEPT ![i] =
                  [called |-> TRUE, X |-> X, params |-> params, before |-> tab[i],
                   res |-> res]]
    /\ UNCHANGED <<ts, tsCall, ctorLog>>

\* the instance goes out of use
DiscardTabular(i) ==
    /\ tab[i].kind # "none"
    /\ tab' = [tab EXCEPT ![i] = NoGen]
    /\ tabCall' = [tabCall EXCEPT ![i] = NoTabCall]
    /\ UNCHANGED <<ts, tsCall, ctorLog>>

----------------------------------------------------------------------------
(* Time-series generators: arrays, Generator.choice, slices *)

\* a numpy array of floats: rows holds shape[0] rows of values in 1/Unit; a
\* 1-D array is held as rows of one value, a 3-D array has shape (n, d, 1)
TSArray(ndim, rows) ==
    [ndim |-> ndim,
     shape |-> CASE ndim = 0 -> <<>>
                 [] ndim = 1 -> <<Len(rows)>>
                 [] ndim = 2 -> <<Len(rows), Len(rows[1])>>
                 [] OTHER -> <<Len(rows), Len(rows[1]), 1>>,
     rows |-> rows]

NoTS ==
    [kind |-> "none", n_outliers |-> 0, local_window_size |-> 0,
     random_generator |-> 0, outliers_indices_ |-> <<>>, calls |-> 0]

TSError(err, X, y, rng, indices) ==
    [status |-> "error", error |-> err, X |-> X, y |-> y, rng |-> rng,
     outliers_indices_ |-> indices, trace |-> <<>>]

TSOk(X, y, rng, indices, trace) ==
    [status |-> "ok", error |-> "", X |-> X, y |-> y, rng |-> rng,
     outliers_indices_ |-> indices, trace |-> trace]

\* Generator.choice(n, size=k, replace=False) accepts 0 <= k <= n
ChoiceFits(n, k) == 0 <= k /\ k <= n

RECURSIVE ChoiceFrom(_, _, _)
ChoiceFrom(s, pool, k) ==
    IF k = 0 THEN [v |-> <<>>, rng |-> s]
    ELSE LET d == Draw(s, Len(pool))
             rest == ChoiceFrom(d.rng, RemoveAt(pool, d.v + 1), k - 1)
         IN [v |-> <<pool[d.v + 1]>> \o rest.v, rng |-> rest.rng]

\* the indices drawn with replacement
Choice_WithReplacement(s, n, k) == DrawSeq(s, n, k)

\* k distinct indices of 0..n-1, in the order drawn
Choice(s, n, k) == ChoiceFrom(s, [i \in 1..n |-> i - 1], k)

InSeq(x, s) == \E k \in 1..Len(s) : s[k] = x

\* the bounds of a[start:stop] on n rows: a negative bound counts from the end
SliceBound(n, a) ==
    IF a < 0 THEN (IF a + n < 0 THEN 0 ELSE a + n) ELSE IF a > n THEN n ELSE a

Slice(rows, start, stop) ==
    LET lo == SliceBound(Len(rows), start)
        hi == SliceBound(Len(rows), stop)
    IN IF lo >= hi THEN <<>> ELSE SubSeq(rows, lo + 1, hi)

----------------------------------------------------------------------------
(* RandomZerosGenerator *)

RandomZerosGenerate(g, X, y) ==
    IF X.ndim < 2
    THEN TSError("Expected 2D array", X, y, g.random_generator, g.outliers_indices_)
    ELSE IF ~ChoiceFits(X.shape[1], g.n_outliers)
    THEN TSError("choice", X, y, g.random_generator, g.outliers_indices_)
    ELSE With(Choice(g.random_generator, X.shape[1], g.n_outliers), LAMBDA c :
           \* for idx in self.outliers_indices_: X[idx, :] = 0
           TSOk([X EXCEPT !.rows =
                   [r \in 1..Len(X.rows) |->
                      IF InSeq(r - 1, c.v)
                      THEN [j \in 1..Len(X.rows[r]) |-> 0]
                      ELSE X.rows[r]]],
                y, c.rng, c.v, <<>>))

----------------------------------------------------------------------------
(* LocalZScoreGenerator *)

HasNaN(col) == \E k \in 1..Len(col) : col[k] = NaN

\* np.mean(local_window, axis=0), one feature: nan for an empty window
LocalMean(col) ==
    IF col = <<>> \/ HasNaN(col) THEN NaN ELSE SumSeq(col) \div Len(col)

\* np.std(local_window, axis=0), one feature
LocalStd(col) ==
    IF col = <<>> \/ HasNaN(col) THEN NaN
    ELSE Isqrt(VarTimesN2(col) \div (Len(col) * Len(col)))

\* local_mean + sign * (3. * local_std + exponential), one feature
LocalZScoreValue(mean, std, sign, e) ==
    IF mean = NaN \/ std = NaN THEN NaN ELSE mean + sign * (ZThreshold * std + e)

\* local_window = X[idx - int(w / 2):idx + int(w / 2), :]
LocalWindow(rows, idx, w) == Slice(rows, idx - w \div 2, idx + w \div 2)

\* one pass of the loop body: the window, the draws and the new row
LocalZScoreStep(rows, idx, w, s) ==
    LET d == Len(rows[1])
        window == LocalWindow(rows, idx, w)
        sign == random_sign(s, d)
        e == Exponential(sign.rng, d)
    IN [idx |-> idx, window |-> window, rng |-> e.rng,
        value |-> [j \in 1..d |->
                     LocalZScoreValue(LocalMean(Column(window, j)),
                                      LocalStd(Column(window, j)),
                                      sign.v[j], e.v[j])]]

\* for idx in self.outliers_indices_: ... X[idx, :] = value
RECURSIVE LocalZScoreLoop(_, _, _, _, _)
LocalZScoreLoop(rows, idxs, w, s, trace) ==
    IF idxs = <<>> THEN [rows |-> rows, rng |-> s, trace |-> trace]
    ELSE With(LocalZScoreStep(rows, Head(idxs), w, s), LAMBDA step :
           LocalZScoreLoop([rows EXCEPT ![step.idx + 1] = step.value], Tail(idxs),
                           w, step.rng, Append(trace, step)))

LocalZScoreGenerate(g, X, y) ==
    IF X.ndim < 2
    THEN TSError("Expected 2D array", X, y, g.random_generator, g.outliers_indices_)
    ELSE IF ~ChoiceFits(X.shape[1], g.n_outliers)
    THEN TSError("choice", X, y, g.random_generator, g.outliers_indices_)
    ELSE With(Choice(g.random_generator, X.shape[1], g.n_outliers), LAMBDA c :
           IF X.ndim > 2 /\ X.shape[2] > 1 /\ c.v # <<>>
           \* a (d, d) value does not fit the (d, 1) row X[idx, :]
           THEN TSError("broadcast", X, y,
                        LocalZScoreStep(X.rows, c.v[1], g.local_window_size, c.rng).rng,
                        c.v)
           ELSE With(LocalZScoreLoop(X.rows, c.v, g.local_window_size, c.rng, <<>>),
                     LAMBDA out :
                       TSOk([X EXCEPT !.rows = out.rows], y, out.rng, c.v, out.trace)))

TSGenerate(g, X, y) ==
    IF g.kind = "RandomZeros" THEN RandomZerosGenerate(g, X, y)
    ELSE LocalZScoreGenerate(g, X, y)

----------------------------------------------------------------------------
(* Time-series generator instances *)

TSKinds == {"RandomZeros", "LocalZScore"}

NoTSCall ==
    [called |-> FALSE, X |-> TSArray(0, <<<<0>>>>), y |-> "none", before |-> NoTS,
     res |-> TSError("", TSArray(0, <<<<0>>>>), "none", 0, <<>>)]

\* OutliersGenerator.__init__ and the subclasses': the arguments are stored
TSInit(kind, rng, n_outliers, w) ==
    [NoTS EXCEPT !.kind = kind, !.n_outliers = n_outliers,
                 !.local_window_size = IF kind = "LocalZScore" THEN w ELSE 0,
                 !.random_generator = rng]

Counts == {0 - 1, 0, 1, 2, MaxRows + 1}

Windows == {2, 4}

TSSeeds == 0..MaxTSSeed

TSArgs ==
    [kind : {"RandomZeros"}, n_outliers : Counts, w : {0}, rng : TSSeeds]
    \cup [kind : {"LocalZScore"}, n_outliers : Counts, w : Windows, rng : TSSeeds]

\* g = Kind(random_generator, n_outliers, ...)
ConstructTimeSeries(i, args) ==
    /\ ts[i].kind = "none"
    /\ tab[i].kind = "none"
    /\ \E a \in args :
         /\ ts' = [ts EXCEPT ![i] = TSInit(a.kind, a.rng, a.n_outliers, a.w)]
         /\ ctorLog' = [family |-> "time_series", kind |-> a.kind,
                        percentage_outliers |-> 0, threshold_low_density |-> 0,
                        n_outliers |-> a.n_outliers, ok |-> TRUE]
    /\ UNCHANGED <<tab, tabCall, tsCall>>

TwinTimeSeries(j, i) ==
    /\ ts[j].kind = "none"
    /\ tab[j].kind = "none"
    /\ ts[i].kind # "none"
    /\ ts' = [ts EXCEPT ![j] = TSInit(ts[i].kind, ts[i].random_generator,
                                      ts[i].n_outliers, ts[i].local_window_size)]
    /\ ctorLog' = [family |-> "time_series", kind |-> ts[i].kind,
                   percentage_outliers |-> 0, threshold_low_density |-> 0,
                   n_outliers |-> ts[i].n_outliers, ok |-> TRUE]
    /\ UNCHANGED <<tab, tabCall, tsCall>>

TSDims == {1, 2}

\* the arrays tried: 0-D, 1-D, 2-D and 3-D
TSInputs ==
    {TSArray(0, <<<<v * Unit>>>>) : v \in 0..MaxVal}
    \cup UNION {{TSArray(1, MakeX(col, 1)) : col \in SortedColumns(n)} : n \in 1..MaxRows}
    \cup UNION {{TSArray(nd, MakeX(col, d)) : col \in SortedColumns(n)} :
                  n \in 1..MaxRows, d \in TSDims, nd \in {2, 3}}

TSTargets == {"y"}

\* Xt, yt = g.generate(X, y)
GenerateTimeSeries(i, inputs) ==
    /\ ts[i].kind # "none"
    /\ ts[i].calls < MaxCalls
    /\ \E X \in inputs, y \in TSTargets :
         \E res \in {TSGenerate(ts[i], X, y)} :
            /\ ts' = [ts EXCEPT ![i].random_generator = res.rng,
                                ![i].outliers_indices_ = res.outliers_indices_,
                                ![i].calls = @ + 1]
            /\ tsCall' = [tsCall EXCEPT ![i] =
                  [called |-> TRUE, X |-> X, y |-> y, before |-> ts[i], res |-> res]]
    /\ UNCHANGED <<tab, tabCall, ctorLog>>

\* the instance goes out of use
DiscardTimeSeries(i) ==
    /\ ts[i].kind # "none"
    /\ ts' = [ts EXCEPT ![i] = NoTS]
    /\ tsCall' = [tsCall EXCEPT ![i] = NoTSCall]
    /\ UNCHANGED <<tab, tabCall, ctorLog>>

----------------------------------------------------------------------------
(* Specifications *)

Instances == {1, 2}

Init ==
    /\ tab = [i \in Instances |-> NoGen]
    /\ tabCall = [i \in Instances |-> NoTabCall]
    /\ ts = [i \in Instances |-> NoTS]
    /\ tsCall = [i \in Instances |-> NoTSCall]
    /\ ctorLog = NoCtor

\* a first call on a fresh instance
GenerateTabularOnce(i, inputs, paramsets) ==
    ~tabCall[i].called /\ GenerateTabular(i, inputs, paramsets)

GenerateTimeSeriesOnce(i, inputs) == ~tsCall[i].called /\ GenerateTimeSeries(i, inputs)

\* one tabular generator: constructed, called once, discarded
NextTab ==
    \/ ConstructTabular(1, TabArgs)
    \/ ConstructDecomposition(1, TabArgs)
    \/ GenerateTabularOnce(1, TabInputs, TabParams)
    \/ DiscardTabular(1)

SpecTab == Init /\ [][NextTab]_vars

\* one time-series generator: constructed, called once, discarded
NextTS ==
    \/ ConstructTimeSeries(1, TSArgs)
    \/ GenerateTimeSeriesOnce(1, TSInputs)
    \/ DiscardTimeSeries(1)

SpecTS == Init /\ [][NextTS]_vars

\* two generators of one strategy and configuration, the second built while
\* the first has made any number of its calls
DetTabArgs ==
    [kind : TabKinds \ {"HistogramSampling"}, pct : {PercentBase \div 2}, thr : {1},
     bins : {1}, rng : {0}]
    \cup [kind : {"HistogramSampling"}, pct : {PercentBase \div 2},
          thr : {ThresholdDen \div 2}, bins : {2}, rng : {0}]

DetTabInputs == {MakeX(<<0, 0, 1, 1>>, 2), MakeX(<<0, 1, 1, 1>>, 2)}

DetTSArgs ==
    [kind : {"RandomZeros"}, n_outliers : {2}, w : {0}, rng : {0}]
    \cup [kind : {"LocalZScore"}, n_outliers : {2}, w : {2}, rng : {0}]

DetTSInputs ==
    {TSArray(2, MakeX(<<0, 0, 1, 1>>, 1)), TSArray(2, MakeX(<<0, 1, 1, 1>>, 1))}

NextDet ==
    \/ ConstructTabular(1, DetTabArgs)
    \/ ConstructDecomposition(1, DetTabArgs)
    \/ TwinTabular(2, 1)
    \/ \E i \in Instances : GenerateTabular(i, DetTabInputs, {NoParams})
    \/ ConstructTimeSeries(1, DetTSArgs)
    \/ TwinTimeSeries(2, 1)
    \/ \E i \in Instances : GenerateTimeSeries(i, DetTSInputs)

SpecDet == Init /\ [][NextDet]_vars

----------------------------------------------------------------------------
(* Properties of the tabular strategies *)

\* k = floor(n * p / 100)
IsFloorOfPercent(k, n, p) == 100 * k <= n * p /\ n * p < 100 * (k + 1)

SumOfSquares(row) == SumSeq(Squares(row))

\* C1: a successful generate of ZScoreSampling, HypersphereSampling,
\* HistogramSampling, or of DecompositionAndOutlier wrapping one of them, on an
\* n-row X with percentage_outliers = p returns exactly floor(n * p / 100)
\* points, each labelled "outliers".
C1_CountIsFloor ==
    \A i \in Instances :
       LET c == tabCall[i]
       IN (/\ c.called
           /\ c.res.status = "ok"
           /\ Strategy(c.before) \in
                {"ZScoreSampling", "HypersphereSampling", "HistogramSampling"})
          => /\ IsFloorOfPercent(c.res.points.shape[1], Len(c.X),
                                 c.before.percentage_outliers)
             /\ c.res.labels = [k \in 1..c.res.points.shape[1] |-> "outliers"]

\* a successful wrapped call where n * p / 100 = 1.5 gave one point
C1_Witness ==
    \E i \in Instances :
       /\ tabCall[i].called
       /\ tabCall[i].res.status = "ok"
       /\ tabCall[i].before.kind = "DecompositionAndOutlier"
       /\ tabCall[i].before.outlier_generator = "HistogramSampling"
       /\ Len(tabCall[i].X) = 3
       /\ tabCall[i].before.percentage_outliers = 50
       /\ tabCall[i].res.points.shape[1] = 1

\* C2: for every tabular strategy and every valid input, also when the
\* computed outlier count is 0 or 1, generate returns a 2-D points array with
\* X's column count and a label vector as long as the points array has rows;
\* the call does not fail because of the cardinality of the result.  Stated
\* for the strategies that accept every X.
C2_AlwaysTwoDimensional ==
    \A i \in Instances :
       LET c == tabCall[i]
       IN (/\ c.called
           /\ c.before.kind \in
                {"ZScoreSampling", "HypersphereSampling", "LowDensitySampling"}
           /\ ~c.params.given)
          => /\ c.res.status = "ok"
             /\ c.res.points.ndim = 2
             /\ c.res.points.shape[2] = Len(c.X[1])
             /\ Len(c.res.labels) = c.res.points.shape[1]

\* C6: LowDensitySampling draws max_samples candidates (n_outliers * 100 unless
\* max_samples is given), returns min(accepted, n_outliers) points with
\* n_outliers = floor(n * p / 100), warns if and only if fewer than n_outliers
\* points are returned, and with zero accepted candidates returns an empty
\* result without raising and without inverse-standardization.
C6_LowDensityBudget ==
    \A i \in Instances :
       LET c == tabCall[i]
           n == c.res.n_outliers
           m == IF c.params.given THEN c.params.max_samples ELSE n * 100
           returned == c.res.points.shape[1]
       IN (c.called /\ c.before.kind = "LowDensitySampling")
          => /\ c.res.status = "ok"
             /\ IsFloorOfPercent(n, Len(c.X), c.before.percentage_outliers)
             /\ c.res.aux.candidates = m
             /\ c.res.rng = RngSkip(c.before.random_generator, m * Len(c.X[1]))
             /\ returned = IF c.res.aux.accepted < n THEN c.res.aux.accepted ELSE n
             /\ c.res.warned <=> returned < n
             /\ c.res.aux.accepted = 0 => returned = 0 /\ ~c.res.inverse_called

\* more candidates were accepted than asked for, and the result was cut
C6_Witness ==
    \E i \in Instances :
       /\ tabCall[i].called
       /\ tabCall[i].before.kind = "LowDensitySampling"
       /\ tabCall[i].res.n_outliers >= 1
       /\ tabCall[i].res.aux.accepted > tabCall[i].res.n_outliers
       /\ tabCall[i].res.points.shape[1] = tabCall[i].res.n_outliers

\* C9: HistogramSampling.generate fails with an unsupported-input error, before
\* standardizing or drawing a random number, whenever X has more than 5
\* columns; and whenever no bin has normalized density <= the threshold it
\* reports a failure instead of returning points.
C9_HistogramFailures ==
    \A i \in Instances :
       LET c == tabCall[i]
       IN (c.called /\ c.before.kind = "HistogramSampling")
          => /\ Len(c.X[1]) > 5
                  => /\ c.res.status = "error"
                     /\ c.res.error = "NotImplementedError"
                     /\ ~c.res.standardized
                     /\ c.res.rng = c.before.random_generator
             /\ (Len(c.X[1]) <= 5 /\ c.res.aux.low = <<>>)
                  => c.res.status = "error" /\ c.res.points.shape[1] = 0

\* a call on fewer than 6 columns failed on an empty low-density set
C9_Witness ==
    \E i \in Instances :
       /\ tabCall[i].called
       /\ tabCall[i].before.kind = "HistogramSampling"
       /\ Len(tabCall[i].X[1]) <= 5
       /\ tabCall[i].res.aux.hist # <<>>
       /\ tabCall[i].res.aux.low = <<>>
       /\ tabCall[i].res.n_outliers >= 1
       /\ tabCall[i].res.status = "error"

\* C10: before inverse-standardization every ZScoreSampling point has absolute
\* value >= 3 in every coordinate, and every HypersphereSampling point has
\* Euclidean norm >= 3, one radius draw being shared by its coordinates.
C10_OutsideThreeSigma ==
    \A i \in Instances :
       LET c == tabCall[i]
           pts == c.res.outliers
       IN c.called
          => /\ c.before.kind = "ZScoreSampling"
                  => \A r \in 1..pts.shape[1] : \A j \in 1..Len(pts.rows[r]) :
                        Abs(pts.rows[r][j]) >= 3 * Unit * pts.den
             /\ c.before.kind = "HypersphereSampling"
                  => /\ \A r \in 1..pts.shape[1] :
                          \E radius \in (3 * Unit)..(3 * Unit + MaxExp) :
                             SumOfSquares(pts.rows[r]) =
                                (radius * pts.den) * (radius * pts.den)
                     /\ c.res.rng = RngSkip(c.before.random_generator,
                                            2 * pts.shape[1])

\* two ZScoreSampling points of two coordinates were drawn and returned
C10_Witness ==
    \E i \in Instances :
       /\ tabCall[i].called
       /\ tabCall[i].before.kind = "ZScoreSampling"
       /\ tabCall[i].res.status = "ok"
       /\ tabCall[i].res.outliers.shape = <<2, 2>>

\* C11: in HistogramSampling.generate the normalized density of every bin is
\* the min-max scaling of its count and lies in [0, 1] (the least-populated bin
\* maps to 0, the most-populated to 1), the low-density candidate set is
\* exactly the set of bins whose normalized density is <= threshold_low_density,
\* and sampled outliers fall only inside bins of that set.  Stated for the
\* histograms whose counts are not all equal, where min-max scaling is defined;
\* the density the code computes for a bin of count h is h / aux.span.
C11_MinMaxNormalized ==
    \A i \in Instances :
       LET c == tabCall[i]
           hist == c.res.aux.hist
           mn == MinSeq(hist)
           mx == MaxSeq(hist)
           coords == AllCoords(Len(c.X[1]), c.before.bins)
           low == {c.res.aux.low[k] : k \in 1..Len(c.res.aux.low)}
       IN (/\ c.called
           /\ c.before.kind = "HistogramSampling"
           /\ hist # <<>>
           /\ mx > mn)
          => /\ c.res.aux.span = mx - mn
             /\ \A p \in 1..Len(hist) :
                   /\ hist[p] * (mx - mn) = (hist[p] - mn) * c.res.aux.span
                   /\ 0 <= hist[p]
                   /\ hist[p] <= c.res.aux.span
             /\ low = {coords[p] : p \in
                         {q \in 1..Len(hist) :
                            (hist[q] - mn) * ThresholdDen
                               <= c.before.threshold_low_density * (mx - mn)}}
             /\ \A k \in 1..Len(c.res.aux.chosen) : c.res.aux.chosen[k] \in low

----------------------------------------------------------------------------
(* Properties of the time-series strategies *)

Distinct(s) == \A a, b \in 1..Len(s) : a # b => s[a] # s[b]

\* C3: after RandomZeros.generate(X, y) with n_outliers = k on a 2-D X, exactly
\* k distinct row indices are recorded in outliers_indices_, every returned row
\* at a recorded index is the zero vector, every other row is the input row,
\* the returned array has the input's shape, and y is returned untouched.
C3_RandomZerosFrame ==
    \A i \in Instances :
       LET c == tsCall[i]
           idxs == ts[i].outliers_indices_
       IN (/\ c.called
           /\ c.before.kind = "RandomZeros"
           /\ c.X.ndim = 2
           /\ c.res.status = "ok")
          => /\ Len(idxs) = c.before.n_outliers
             /\ Distinct(idxs)
             /\ \A k \in 1..Len(idxs) : idxs[k] \in 0..(c.X.shape[1] - 1)
             /\ c.res.X.shape = c.X.shape
             /\ \A r \in 1..c.X.shape[1] :
                   IF InSeq(r - 1, idxs)
                   THEN \A j \in 1..c.X.shape[2] : c.res.X.rows[r][j] = 0
                   ELSE c.res.X.rows[r] = c.X.rows[r]
             /\ c.res.y = c.y

\* two of four rows were zeroed, one of them a row that was not zero
C3_Witness ==
    \E i \in Instances :
       /\ tsCall[i].called
       /\ tsCall[i].before.kind = "RandomZeros"
       /\ tsCall[i].X.shape = <<4, 2>>
       /\ tsCall[i].res.status = "ok"
       /\ Len(ts[i].outliers_indices_) = 2
       /\ \E k \in 1..2 :
             tsCall[i].X.rows[ts[i].outliers_indices_[k] + 1] # <<0, 0>>

\* C4: after LocalZScore.generate(X, y) the returned array differs from the
\* input only at the recorded outlier indices, and for every recorded index,
\* also one closer than local_window_size / 2 to an end of the array or one
\* whose window holds rows changed before, the magnitude of the change exceeds
\* 3 * local_std, per feature, of the window used for that index.  The change
\* is read in the claim's favour: the new value is a number that lies at least
\* 3 * local_std from the mean of the window, or more than that from the old
\* value.
C4_LocalZScoreChange ==
    \A i \in Instances :
       LET c == tsCall[i]
       IN (/\ c.called
           /\ c.before.kind = "LocalZScore"
           /\ c.X.ndim = 2
           /\ c.res.status = "ok")
          => /\ \A r \in 1..c.X.shape[1] :
                   ~InSeq(r - 1, c.res.outliers_indices_)
                      => c.res.X.rows[r] = c.X.rows[r]
             /\ \A t \in 1..Len(c.res.trace) :
                   LET step == c.res.trace[t]
                       new == c.res.X.rows[step.idx + 1]
                       old == c.X.rows[step.idx + 1]
                   IN \A j \in 1..c.X.shape[2] :
                         /\ new[j] # NaN
                         /\ \/ Abs(new[j] - LocalMean(Column(step.window, j)))
                                 >= 3 * LocalStd(Column(step.window, j))
                            \/ Abs(new[j] - old[j])
                                 > 3 * LocalStd(Column(step.window, j))

\* C7: for RandomZeros and LocalZScore, generate fails with a shape error
\* whenever X is not 2-D (0-D, 1-D or more than 2 dimensions), and on that
\* failure X is not changed, the random source is not advanced and
\* outliers_indices_ keeps its previous value.
C7_ShapeError ==
    \A i \in Instances :
       LET c == tsCall[i]
       IN (c.called /\ c.X.ndim # 2)
          => /\ c.res.status = "error"
             /\ c.res.error = "Expected 2D array"
             /\ c.res.X = c.X
             /\ c.res.rng = c.before.random_generator
             /\ ts[i].outliers_indices_ = c.before.outliers_indices_

\* C8: the outlier percentage or count in force is never negative and never
\* exceeds the sample count: a tabular generator holds a percentage of
\* [0, 100] (and HistogramSampling a threshold of (0, 1)), and a time-series
\* generator never holds or acts on an n_outliers that is negative or larger
\* than the number of rows of X.
C8_CountInRange ==
    \A i \in Instances :
       /\ tab[i].kind # "none"
            => /\ 0 <= tab[i].percentage_outliers
               /\ tab[i].percentage_outliers <= 100
               /\ Strategy(tab[i]) = "HistogramSampling"
                    => /\ 0 < tab[i].threshold_low_density
                       /\ tab[i].threshold_low_density < ThresholdDen
       /\ ts[i].kind # "none" => ts[i].n_outliers >= 0
       /\ (tsCall[i].called /\ tsCall[i].X.ndim >= 2)
            => tsCall[i].before.n_outliers <= tsCall[i].X.shape[1]

----------------------------------------------------------------------------
(* Determinism *)

\* the constructor arguments of a tabular generator, its random source aside
TabConfig(g) ==
    <<g.kind, g.outlier_generator, g.n_components, g.percentage_outliers,
      g.threshold_low_density, g.bins>>

TSConfig(g) == <<g.kind, g.n_outliers, g.local_window_size>>

\* C5: two instances of the same strategy with the same configuration, each
\* with its own random source in the same state, called on equal inputs return
\* equal outputs (and, for the time-series strategies, record equal outlier
\* indices); the result depends only on X, the configuration and the state of
\* the random source at the call, not on the earlier calls of the instance.
C5_Deterministic ==
    \A i, j \in Instances :
       /\ (/\ tabCall[i].called
           /\ tabCall[j].called
           /\ TabConfig(tabCall[i].before) = TabConfig(tabCall[j].before)
           /\ tabCall[i].before.random_generator = tabCall[j].before.random_generator
           /\ tabCall[i].X = tabCall[j].X
           /\ tabCall[i].params = tabCall[j].params)
          => /\ tabCall[i].res.status = tabCall[j].res.status
             /\ tabCall[i].res.error = tabCall[j].res.error
             /\ tabCall[i].res.points = tabCall[j].res.points
             /\ tabCall[i].res.labels = tabCall[j].res.labels
             /\ tabCall[i].res.warned = tabCall[j].res.warned
             /\ tabCall[i].res.rng = tabCall[j].res.rng
       /\ (/\ tsCall[i].called
           /\ tsCall[j].called
           /\ TSConfig(tsCall[i].before) = TSConfig(tsCall[j].before)
           /\ tsCall[i].before.random_generator = tsCall[j].before.random_generator
           /\ tsCall[i].X = tsCall[j].X
           /\ tsCall[i].y = tsCall[j].y)
          => /\ tsCall[i].res.status = tsCall[j].res.status
             /\ tsCall[i].res.X = tsCall[j].res.X
             /\ tsCall[i].res.y = tsCall[j].res.y
             /\ tsCall[i].res.rng = tsCall[j].res.rng
             /\ ts[i].outliers_indices_ = ts[j].outliers_indices_

\* a LowDensitySampling generator on its second call, after a call on another
\* X, and its twin on its first call returned the same two points
C5_Witness ==
    /\ tabCall[1].called
    /\ tabCall[2].called
    /\ tabCall[1].before.kind = "LowDensitySampling"
    /\ tabCall[1].before.calls = 1
    /\ tabCall[2].before.calls = 0
    /\ tabCall[1].before.density_estimator # tabCall[2].before.density_estimator
    /\ tabCall[1].before.density_estimator.data # tabCall[1].res.density_estimator.data
    /\ tabCall[1].before.random_generator = tabCall[2].before.random_generator
    /\ tabCall[1].X = tabCall[2].X
    /\ tabCall[1].params = tabCall[2].params
    /\ tabCall[1].res.status = "ok"
    /\ tabCall[1].res.points.shape[1] = 2
    /\ tabCall[1].res.points = tabCall[2].res.points

====
